---- MODULE Spec2Model ----
(***************************************************************************)
(* Model of the Portsaid catalog scraper: the paginated fetch loop with    *)
(* retries (PortsaidScraper.fetch_products), the GitHub Actions variant    *)
(* of the same loop with its max_pages ceiling (src/src/scraper.py main),  *)
(* record normalization (process_products and the variant's inline loop)   *)
(* and the hand-over of the normalized records to the exporters.           *)
(***************************************************************************)
EXTENDS Integers, Sequences, FiniteSets, TLC

VARIABLES
    variant,        \* "class": PortsaidScraper.run; "ci": src/src/scraper.py main
    server,         \* the upstream catalog answering GET ...?page=n
    max_retries,    \* self.config['max_retries']
    pc,             \* position of the run
    page,           \* page counter
    attempt,        \* index of the next iteration of `for attempt in range(...)`
    products_bound, \* whether the local `products` has been assigned
    products,       \* `products` of the last successful response
    all_products,   \* accumulated raw records
    total_pages,    \* the page estimate (None until computed)
    reqLog,         \* page number of every GET issued, in order
    error,          \* the exception that ended the run, if any
    processed,      \* canonical records built so far
    sink,           \* canonical records handed to the exporters
    exit_code       \* <<>> while running, <<0>> or <<1>> once the run has ended

vars == <<variant, server, max_retries, pc, page, attempt, products_bound,
          products, all_products, total_pages, reqLog, error, processed,
          sink, exit_code>>

----------------------------------------------------------------------------
(* Bounds of the model *)

MaxCatalogPages == 2
MaxPerPage == 2
MaxPrice == 3
MaxLen == 3

(* Program constants *)

DefaultMaxRetries == 3
DefaultPerPage == 24
max_pages == 50

----------------------------------------------------------------------------
(* JSON values: a number, an absent key, or a null / non-numeric value *)

Num(n) == [tag |-> "num", v |-> n]
Absent == [tag |-> "absent", v |-> 0]
Null == [tag |-> "null", v |-> 0]

\* dict.get(key, default)
DictGet(field, default) == IF field.tag = "absent" THEN Num(default) ELSE field

Range(s) == {s[i] : i \in DOMAIN s}

----------------------------------------------------------------------------
(* Category normalization: category.replace('/', ' > ').strip(' >') *)

RECURSIVE ReplaceSlash(_)
ReplaceSlash(s) ==
    IF s = <<>> THEN <<>>
    ELSE (IF Head(s) = "/" THEN <<" ", ">", " ">> ELSE <<Head(s)>>)
         \o ReplaceSlash(Tail(s))

StripSet == {" ", ">"}

RECURSIVE LStrip(_)
LStrip(s) ==
    IF s # <<>> /\ Head(s) \in StripSet THEN LStrip(Tail(s)) ELSE s

RECURSIVE RStrip(_)
RStrip(s) ==
    IF s # <<>> /\ s[Len(s)] \in StripSet
    THEN RStrip(SubSeq(s, 1, Len(s) - 1)) ELSE s

\* a strip that removes at most one character from each end
StripOnce(s) ==
    LET l == IF s # <<>> /\ Head(s) \in StripSet THEN Tail(s) ELSE s
    IN  IF l # <<>> /\ l[Len(l)] \in StripSet
        THEN SubSeq(l, 1, Len(l) - 1) ELSE l

Strip(s) == RStrip(LStrip(s))

NormalizeCategory(c) == Strip(ReplaceSlash(c))

----------------------------------------------------------------------------
(* Discount: round((1 - selling_price/list_price) * 100, 0) if list_price > 0 else 0 *)

\* round(n/d, 0) for d > 0: nearest integer, ties to the even one
RoundHalfEven(n, d) ==
    LET q == n \div d
        r == n % d
    IN  IF 2 * r < d THEN q
        ELSE IF 2 * r > d THEN q + 1
        ELSE IF q % 2 = 0 THEN q ELSE q + 1

\* the discount truncated instead of rounded
DiscountTruncated(list_price, selling_price) ==
    IF list_price > 0
    THEN (100 * (list_price - selling_price)) \div list_price
    ELSE 0

DiscountPercent(list_price, selling_price) ==
    IF list_price > 0
    THEN RoundHalfEven(100 * (list_price - selling_price), list_price)
    ELSE 0

----------------------------------------------------------------------------
(* One raw record.  isMap is FALSE for a JSON value that is not an object. *)
(* listHigh / sellHigh are priceRange.listPrice.highPrice and              *)
(* priceRange.sellingPrice.highPrice; offerPrice / offerListPrice are      *)
(* items[0].sellers[0].commertialOffer.Price / .ListPrice.                 *)

list_price_of(product) == DictGet(product.listHigh, 0)
selling_price_of(product) == DictGet(product.sellHigh, 0)

\* the body of the try block raises (AttributeError / TypeError)
TryRaises(product) ==
    \/ ~product.isMap
    \/ list_price_of(product).tag # "num"
    \/ /\ list_price_of(product).v > 0
       /\ selling_price_of(product).tag # "num"

\* the dict appended to `processed`
Canonical(product) ==
    [ID          |-> product.productId,
     Categoria   |-> NormalizeCategory(product.category),
     PrecioLista |-> list_price_of(product),
     PrecioVenta |-> selling_price_of(product),
     Descuento   |-> DiscountPercent(list_price_of(product).v,
                                     selling_price_of(product).v)]

\* the except handler itself raises: the class logs product.get('productId'),
\* the CI variant prints the exception only
HandlerRaises(v, product) == v = "class" /\ ~product.isMap

\* index of the first record whose except handler raises, 0 when there is none
FirstHandlerRaise(v, prods) ==
    LET bad == {i \in DOMAIN prods : TryRaises(prods[i]) /\ HandlerRaises(v, prods[i])}
    IN  IF bad = {} THEN 0 ELSE CHOOSE i \in bad : \A j \in bad : i <= j

\* the for loop: a record whose try block raises is skipped (`continue`), the
\* others are appended in order; the loop ends early when a handler raises
ProcessProducts(v, prods) ==
    LET stop == FirstHandlerRaise(v, prods)
        seen == IF stop = 0 THEN prods ELSE SubSeq(prods, 1, stop - 1)
        kept == SelectSeq(seen, LAMBDA p : ~TryRaises(p))
    IN  [raised |-> stop # 0,
         out    |-> [i \in 1..Len(kept) |-> Canonical(kept[i])]]

----------------------------------------------------------------------------
(* The upstream API *)

Stamp(body, p) ==
    [i \in 1..Len(body) |-> [body[i] EXCEPT !.productId = <<p, i>>]]

\* response.json() of a successful GET for page p
Response(srv, p) ==
    [products        |-> IF p <= srv.n THEN Stamp(srv.body, p) ELSE <<>>,
     recordsFiltered |-> srv.recordsFiltered,
     perPage         |-> srv.perPage]

\* `if not products`, with the rule "a short page is the last one" as the variant
ShortPage(prods) == Len(prods) <= 1

NotProducts(prods) == prods = <<>>

\* `while page <= max_pages`, with the ceiling off by one as the variant
CiWhileCondOffByOne(p) == p <= max_pages + 1

CiWhileCond(p) == p <= max_pages

\* total_pages = (total_products + per_page - 1) // per_page
total_products_of(data) == DictGet(data.recordsFiltered, 0)
per_page_of(data) == DictGet(data.perPage, DefaultPerPage)

EstimateError(data) ==
    IF total_products_of(data).tag # "num" \/ per_page_of(data).tag # "num"
    THEN "TypeError"
    ELSE IF per_page_of(data).v = 0 THEN "ZeroDivisionError" ELSE "none"

Estimate(data) ==
    (total_products_of(data).v + per_page_of(data).v - 1) \div per_page_of(data).v

NoError == [type |-> "none", page |-> 0]

----------------------------------------------------------------------------
(* Inputs *)

SampleCategory == <<"/", "a", "/", "a", "/">>

MkRaw(isMap, lh, sh, op, ol, cat) ==
    [isMap |-> isMap, productId |-> <<0, 0>>, listHigh |-> lh, sellHigh |-> sh,
     offerPrice |-> op, offerListPrice |-> ol, category |-> cat]

OkRec == MkRaw(TRUE, Num(1000), Num(800), Num(800), Num(1000), SampleCategory)
NullPriceRec == MkRaw(TRUE, Null, Num(800), Absent, Absent, SampleCategory)
NotMapRec == MkRaw(FALSE, Absent, Absent, Absent, Absent, <<>>)

Samples == {OkRec, NullPriceRec, NotMapRec}

Bodies == UNION {[1..k -> Samples] : k \in 1..MaxPerPage}

Prices == (-1..MaxPrice) \cup {500, 800, 900, 999, 1000, 1200}
PriceFields == {Num(n) : n \in Prices} \cup {Absent, Null}
OfferFields == {Num(n) : n \in {0, 800, 1000}} \cup {Absent}

Alphabet == {"/", ">", " ", "a"}
Categories == UNION {[1..k -> Alphabet] : k \in 0..MaxLen}

ClassServers ==
    [n : 0..MaxCatalogPages, body : Bodies,
     recordsFiltered : {Absent, Num(49)},
     perPage : {Absent, Null, Num(0), Num(DefaultPerPage)}]

CiServers ==
    [n : (0..MaxCatalogPages) \cup {max_pages - 1, max_pages, max_pages + 1},
     body : Bodies, recordsFiltered : {Absent}, perPage : {Absent}]

IdleServer == [n |-> 0, body |-> <<OkRec>>, recordsFiltered |-> Absent, perPage |-> Absent]

----------------------------------------------------------------------------
(* The run *)

Start ==
    /\ pc = "fetch"
    /\ page = 1
    /\ attempt = 0
    /\ products_bound = FALSE
    /\ products = <<>>
    /\ all_products = <<>>
    /\ total_pages = Null
    /\ reqLog = <<>>
    /\ error = NoError
    /\ processed = <<>>
    /\ sink = <<>>
    /\ exit_code = <<>>

Init ==
    /\ variant \in {"class", "ci"}
    /\ IF variant = "class"
       THEN server \in ClassServers /\ max_retries \in 0..DefaultMaxRetries
       ELSE server \in CiServers /\ max_retries = 1
    /\ Start

\* an exception leaves fetch_products / run uncaught; p is the page it concerns
Raise(type, p) ==
    /\ pc' = "raised"
    /\ error' = [type |-> type, page |-> p]
    /\ exit_code' = <<1>>

\* fetch_products: requests.get raises RequestException
ClassRequestFail ==
    /\ variant = "class" /\ pc = "fetch" /\ attempt < max_retries
    /\ reqLog' = Append(reqLog, page)
    /\ IF attempt = max_retries - 1
       THEN Raise("RequestException", page) /\ UNCHANGED attempt
       ELSE attempt' = attempt + 1 /\ UNCHANGED <<pc, error, exit_code>>
    /\ UNCHANGED <<variant, server, max_retries, page, products_bound, products,
                   all_products, total_pages, processed, sink>>

\* fetch_products: the GET succeeds; the rest of the loop body up to the next GET
ClassRequestOk ==
    /\ variant = "class" /\ pc = "fetch" /\ attempt < max_retries
    /\ reqLog' = Append(reqLog, page)
    /\ LET data == Response(server, page) IN
        /\ products' = data.products
        /\ products_bound' = TRUE
        /\ IF NotProducts(data.products)
           THEN /\ pc' = "process"
                /\ UNCHANGED <<page, attempt, all_products, total_pages, error, exit_code>>
           ELSE /\ all_products' = all_products \o data.products
                /\ IF total_pages.tag # "num" /\ EstimateError(data) # "none"
                   THEN /\ Raise(EstimateError(data), page)
                        /\ UNCHANGED <<page, attempt, total_pages>>
                   ELSE /\ total_pages' = IF total_pages.tag # "num"
                                          THEN Num(Estimate(data)) ELSE total_pages
                        /\ page' = page + 1
                        /\ attempt' = 0
                        /\ UNCHANGED <<pc, error, exit_code>>
    /\ UNCHANGED <<variant, server, max_retries, processed, sink>>

\* fetch_products: range(max_retries) is empty, `if not products` reads the local
ClassNoAttempt ==
    /\ variant = "class" /\ pc = "fetch" /\ attempt >= max_retries
    /\ IF ~products_bound
       THEN Raise("UnboundLocalError", page) /\ UNCHANGED page
       ELSE IF NotProducts(products)
            THEN pc' = "process" /\ UNCHANGED <<page, error, exit_code>>
            ELSE page' = page + 1 /\ UNCHANGED <<pc, error, exit_code>>
    /\ UNCHANGED <<variant, server, max_retries, attempt, products_bound, products,
                   all_products, total_pages, reqLog, processed, sink>>

\* CI main: requests.get raises; `except requests.RequestException: return 1`
CiRequestFail ==
    /\ variant = "ci" /\ pc = "fetch" /\ CiWhileCond(page)
    /\ reqLog' = Append(reqLog, page)
    /\ pc' = "failed"
    /\ error' = [type |-> "RequestException", page |-> page]
    /\ exit_code' = <<1>>
    /\ UNCHANGED <<variant, server, max_retries, page, attempt, products_bound,
                   products, all_products, total_pages, processed, sink>>

\* CI main: the GET succeeds
CiRequestOk ==
    /\ variant = "ci" /\ pc = "fetch" /\ CiWhileCond(page)
    /\ reqLog' = Append(reqLog, page)
    /\ LET data == Response(server, page) IN
        /\ products' = data.products
        /\ products_bound' = TRUE
        /\ IF NotProducts(data.products)
           THEN pc' = "process" /\ UNCHANGED <<page, all_products>>
           ELSE /\ all_products' = all_products \o data.products
                /\ page' = page + 1
                /\ UNCHANGED pc
    /\ UNCHANGED <<variant, server, max_retries, attempt, total_pages, error,
                   processed, sink, exit_code>>

\* CI main: `while page <= max_pages` is false
CiCeiling ==
    /\ variant = "ci" /\ pc = "fetch" /\ ~CiWhileCond(page)
    /\ pc' = "process"
    /\ UNCHANGED <<variant, server, max_retries, page, attempt, products_bound,
                   products, all_products, total_pages, reqLog, error, processed,
                   sink, exit_code>>

\* process_products(raw_products) / the CI processing loop
Process ==
    /\ pc = "process"
    /\ LET r == ProcessProducts(variant, all_products) IN
        IF r.raised
        THEN Raise("AttributeError", 0) /\ UNCHANGED processed
        ELSE processed' = r.out /\ pc' = "export" /\ UNCHANGED <<error, exit_code>>
    /\ UNCHANGED <<variant, server, max_retries, page, attempt, products_bound,
                   products, all_products, total_pages, reqLog, sink>>

\* create_excel / create_csv_google_sheets / to_csv; json.dump and csv in CI
Export ==
    /\ pc = "export"
    /\ sink' = processed
    /\ pc' = "done"
    /\ exit_code' = <<0>>
    /\ UNCHANGED <<variant, server, max_retries, page, attempt, products_bound,
                   products, all_products, total_pages, reqLog, error, processed>>

Next ==
    \/ ClassRequestFail
    \/ ClassRequestOk
    \/ ClassNoAttempt
    \/ CiRequestFail
    \/ CiRequestOk
    \/ CiCeiling
    \/ Process
    \/ Export

Spec == Init /\ [][Next]_vars

----------------------------------------------------------------------------
(* Normalization of one record: the run right after a fetch that returned   *)
(* a single record, the record drawn from the bounded input space.          *)

PriceInputs ==
    {MkRaw(TRUE, lh, sh, op, ol, SampleCategory) :
        lh \in PriceFields, sh \in PriceFields, op \in OfferFields, ol \in OfferFields}

CategoryInputs ==
    {MkRaw(TRUE, Num(1000), Num(800), Absent, Absent, c) : c \in Categories}

RecordInputs == PriceInputs \cup CategoryInputs \cup {NotMapRec}

InitNorm ==
    /\ variant \in {"class", "ci"}
    /\ max_retries = IF variant = "class" THEN DefaultMaxRetries ELSE 1
    /\ \E raw \in RecordInputs :
        /\ server = [n |-> 1, body |-> <<raw>>, recordsFiltered |-> Absent,
                     perPage |-> Absent]
        /\ all_products = Stamp(<<raw>>, 1)
    /\ pc = "process"
    /\ page = 2
    /\ attempt = 0
    /\ products_bound = TRUE
    /\ products = <<>>
    /\ total_pages = IF variant = "class" THEN Num(0) ELSE Null
    /\ reqLog = <<1, 2>>
    /\ error = NoError
    /\ processed = <<>>
    /\ sink = <<>>
    /\ exit_code = <<>>

NextNorm ==
    \/ Process
    \/ Export

SpecNorm == InitNorm /\ [][NextNorm]_vars

----------------------------------------------------------------------------
(* Vocabulary of the properties *)

\* the last successful response had an empty (or absent) products array
LastPageEmpty == products_bound /\ products = <<>>

\* the fetch loop was left without an exception
FetchEndedNormally ==
    \/ pc \in {"process", "export", "done"}
    \/ pc = "raised" /\ error.type = "AttributeError"

\* the CI loop was left by its `page <= max_pages` test
CeilingReached == variant = "ci" /\ page = max_pages + 1

Normalizable(prods) == SelectSeq(prods, LAMBDA p : ~TryRaises(p))

RawOf(c) == CHOOSE r \in Range(all_products) : r.productId = c.ID

Abs(x) == IF x < 0 THEN -x ELSE x

\* d is the integer nearest to 100 * (l - s) / l, the even one on a tie
IsRounded(d, l, s) ==
    /\ 2 * Abs(100 * (l - s) - d * l) <= l
    /\ 2 * Abs(100 * (l - s) - d * l) = l => d % 2 = 0

BothNum(c) == c.PrecioLista.tag = "num" /\ c.PrecioVenta.tag = "num"

----------------------------------------------------------------------------
(* C1 *)

\* C1 as stated: once a page comes back empty the loop has been left and no
\* further GET is issued, and the loop is left without error only after an
\* empty page (a non-empty page never terminates pagination).
C1_EmptyPageOnlyTerminates ==
    /\ LastPageEmpty => pc # "fetch"
    /\ FetchEndedNormally => LastPageEmpty

\* C1, amended: once a page comes back empty the loop has been left and no
\* further GET is ever issued; the loop is left without error only after an
\* empty page or, in the CI script, after page max_pages whatever it held.
C1_EmptyOrCeilingTerminates ==
    /\ [](LastPageEmpty => pc # "fetch")
    /\ [][LastPageEmpty => reqLog' = reqLog]_vars
    /\ [](FetchEndedNormally => (LastPageEmpty \/ CeilingReached))

\* pagination went past a short non-empty page and ended on the empty one
C1_Witness ==
    /\ pc = "process" /\ LastPageEmpty
    /\ page >= 2 /\ Len(all_products) = page - 1

----------------------------------------------------------------------------
(* C2 *)

\* C2: with max_retries = 3, a page whose GET fails twice and succeeds the third
\* time has its records appended and the loop goes on to the next page; a page
\* whose GET fails three times ends the run with the transport error, for that page.
C2_RetryThenContinue ==
    /\ [][(/\ variant = "class" /\ max_retries = DefaultMaxRetries
           /\ pc = "fetch" /\ attempt = DefaultMaxRetries - 1
           /\ reqLog' # reqLog
           /\ error'.type # "RequestException"
           /\ Response(server, page).products # <<>>)
          => (/\ all_products' = all_products \o Response(server, page).products
              /\ page' = page + 1
              /\ pc' = "fetch")]_vars
    /\ [][(/\ variant = "class" /\ max_retries = DefaultMaxRetries
           /\ pc = "fetch" /\ attempt = DefaultMaxRetries - 1
           /\ reqLog' # reqLog
           /\ products' = products /\ products_bound' = products_bound
           /\ all_products' = all_products)
          => (/\ pc' = "raised"
              /\ error' = [type |-> "RequestException", page |-> page])]_vars

----------------------------------------------------------------------------
(* C3 *)

\* C3: a run aborted by a transport error on a page n > 1 still hands the
\* exporters the records that normalize among those of pages 1..n-1.
C3_AbortSurfacesPartial ==
    (error.type = "RequestException" /\ error.page > 1)
        => Len(sink) = Len(Normalizable(all_products))

----------------------------------------------------------------------------
(* C4 *)

\* C4: no record aborts the processing, and once processing is over every
\* record that can be mapped has been emitted, in order.
C4_BadRecordSkipped ==
    /\ error.type # "AttributeError"
    /\ pc \in {"export", "done"} =>
          processed = [i \in 1..Len(Normalizable(all_products)) |->
                          Canonical(Normalizable(all_products)[i])]

----------------------------------------------------------------------------
(* C5 *)

\* C5: an emitted record whose list price is <= 0, whose selling price is <= 0
\* or whose list price is <= its selling price has a discount of exactly 0.
C5_NoDiscountIsZero ==
    \A i \in DOMAIN processed :
        (/\ BothNum(processed[i])
         /\ \/ processed[i].PrecioLista.v <= 0
            \/ processed[i].PrecioVenta.v <= 0
            \/ processed[i].PrecioLista.v <= processed[i].PrecioVenta.v)
        => processed[i].Descuento = 0

----------------------------------------------------------------------------
(* C6 *)

\* C6 as stated: an emitted record with list price > selling price > 0 has the
\* discount round((1 - selling/list) * 100), and that discount is in 1..100.
C6_DiscountIn1To100 ==
    \A i \in DOMAIN processed :
        (/\ BothNum(processed[i])
         /\ processed[i].PrecioVenta.v > 0
         /\ processed[i].PrecioLista.v > processed[i].PrecioVenta.v)
        => /\ IsRounded(processed[i].Descuento, processed[i].PrecioLista.v,
                        processed[i].PrecioVenta.v)
           /\ processed[i].Descuento \in 1..100

\* C6, amended: an emitted record with list price > selling price > 0 has the
\* discount round((1 - selling/list) * 100), and that discount is in 0..100
\* (it is 0 when the reduction is below half a percent).
C6_DiscountIn0To100 ==
    \A i \in DOMAIN processed :
        (/\ BothNum(processed[i])
         /\ processed[i].PrecioVenta.v > 0
         /\ processed[i].PrecioLista.v > processed[i].PrecioVenta.v)
        => /\ IsRounded(processed[i].Descuento, processed[i].PrecioLista.v,
                        processed[i].PrecioVenta.v)
           /\ processed[i].Descuento \in 0..100

\* a record with list price > selling price > 0 was emitted with discount 0
C6_Witness ==
    \E i \in DOMAIN processed :
        /\ BothNum(processed[i])
        /\ processed[i].PrecioVenta.v > 0
        /\ processed[i].PrecioLista.v > processed[i].PrecioVenta.v
        /\ processed[i].Descuento = 0

----------------------------------------------------------------------------
(* C7 *)

\* C7: an emitted record whose first offer has Price > 0 and ListPrice > 0
\* carries the offer's ListPrice and Price as its list and selling price.
C7_OfferPricesWin ==
    \A i \in DOMAIN processed :
        LET r == RawOf(processed[i]) IN
        (/\ r.offerPrice.tag = "num" /\ r.offerPrice.v > 0
         /\ r.offerListPrice.tag = "num" /\ r.offerListPrice.v > 0)
        => /\ processed[i].PrecioLista = r.offerListPrice
           /\ processed[i].PrecioVenta = r.offerPrice

----------------------------------------------------------------------------
(* C8 *)

\* C8: whatever recordsFiltered and pagination.perPage hold, the estimate
\* does not change how the run goes: fetch_products is never ended by an
\* error of the estimate's own arithmetic.
C8_EstimateNeverEndsRun ==
    error.type \notin {"ZeroDivisionError", "TypeError"}

----------------------------------------------------------------------------
(* C9 *)

\* C9: the CI script issues at most max_pages GETs; when the ceiling is reached
\* with every page non-empty there is no error, the records of all max_pages
\* pages are kept, the loop is left for processing, and the run ends with
\* exit code 0 after the records that normalize were exported.
C9_CeilingEndsWithoutError ==
    /\ [](variant = "ci" => Len(reqLog) <= max_pages)
    /\ [](CeilingReached =>
            /\ error = NoError
            /\ pc \in {"fetch", "process", "export", "done"}
            /\ Len(all_products) = max_pages * Len(server.body)
            /\ \A p \in 1..max_pages : \A i \in 1..Len(server.body) :
                  all_products[(p - 1) * Len(server.body) + i].productId = <<p, i>>
            /\ pc = "done" =>
                  /\ exit_code = <<0>>
                  /\ [i \in 1..Len(sink) |-> sink[i].ID]
                        = [i \in 1..Len(Normalizable(all_products)) |->
                              Normalizable(all_products)[i].productId])
    /\ [][(CeilingReached /\ pc = "fetch") => pc' = "process"]_vars

\* the CI run ended at the ceiling with exit code 0 and a non-empty export
C9_Witness ==
    /\ CeilingReached /\ pc = "done" /\ exit_code = <<0>>
    /\ Len(reqLog) = max_pages /\ sink # <<>>

----------------------------------------------------------------------------
(* C10 *)

\* C10: normalizing an emitted (already normalized) category again yields
\* the same string.
C10_CategoryIdempotent ==
    \A i \in DOMAIN processed :
        NormalizeCategory(processed[i].Categoria) = processed[i].Categoria

\* a category that normalization changed into a non-empty path was emitted
C10_Witness ==
    \E i \in DOMAIN processed :
        /\ processed[i].Categoria # RawOf(processed[i]).category
        /\ Len(processed[i].Categoria) > 1
        /\ Head(RawOf(processed[i]).category) \in {"/", " ", ">"}

----------------------------------------------------------------------------
(* C11 *)

\* number of GETs issued for page p
RequestsFor(p) == Cardinality({i \in DOMAIN reqLog : reqLog[i] = p})

\* C11: in fetch_products, for every max_retries >= 0, every page the loop has
\* reached gets at least one and at most max_retries GETs (the attempt counter
\* counts the GETs of the current page only), the page counter has advanced
\* only past pages that answered with a non-empty products array, and the
\* exhaustion test never reads `products` unset or left over from another page.
C11_EveryPageAttempted ==
    variant = "class" =>
        /\ \A p \in 1..page : RequestsFor(p) <= max_retries
        /\ \A p \in 1..(page - 1) : RequestsFor(p) >= 1
        /\ pc # "fetch" => RequestsFor(page) >= 1
        /\ pc = "fetch" => attempt = RequestsFor(page)
        /\ (pc = "fetch" /\ page > 1) =>
              /\ products_bound
              /\ products = Response(server, page - 1).products
              /\ products # <<>>
        /\ error.type # "UnboundLocalError"

====
